---- MODULE Spec2Model ----
(***************************************************************************)
(* A model of the gatekeeper validation core: the persistent, reference-   *)
(* counted path list (error/rc_list.rs), Path and Report (error/mod.rs),   *)
(* and the Validate entry points with the Valid/Unvalidated typestate      *)
(* (validate.rs).                                                          *)
(***************************************************************************)
EXTENDS Integers, Sequences, FiniteSets, TLC

VARIABLES
    heap,       \* the Arc<Node<T>> allocations: a sequence of nodes, addressed by index
    lists,      \* the List<T> handles the program has created
    built,      \* per handle: the values passed to the append calls that built it
    origin,     \* per handle: the receiver of the append call that returned it (0: none)
    iter,       \* the Iter<'_, T> in use, and its position inside Iter::next
    yielded,    \* the items Iter::next has returned so far
    shown,      \* the last Path handed to Display, and the text written
    report,     \* the Report under construction (Report.errors)
    appended,   \* the (path, error) pairs passed to Report::append so far
    rendered,   \* the text Display wrote for `report` (or "-" before any call)
    objs,       \* the values the caller owns: bare T, Unvalidated<T>, Valid<T>
    result,     \* what the last entry-point call returned
    validated   \* the values for which Unvalidated::validate(_with) returned Ok

listVars == <<lists, built, origin, iter, yielded>>
pathVars == <<shown>>
reportVars == <<report, appended, rendered>>
validVars == <<objs, result, validated>>
vars == <<heap, listVars, pathVars, reportVars, validVars>>

(***************************************************************************)
(* Bounds of the model.                                                    *)
(***************************************************************************)
MaxNodes == 3       \* nodes allocated in one run of the list or path machine
MaxAppends == 11    \* Report::append calls on one report
MaxObjs == 2        \* values the caller owns at one time

IterThread == "iterating"
Threads == {IterThread, "other"}
Vals == {"x", "y"}

(***************************************************************************)
(* error/rc_list.rs: List, Node, Arc                                       *)
(***************************************************************************)
None == 0

\* A node as allocated by Arc::new: the strong count starts at 1.
Node(prev, value) == [prev |-> prev, value |-> value, strong |-> 1]

\* A clone that takes the pointer without counting the new owner.
M_ArcClone_NoCount(h, n) == h

\* Arc::clone: one more owner of node n (Option::clone of None does nothing).
ArcClone(h, n) == IF n = None THEN h ELSE [h EXCEPT ![n].strong = @ + 1]

\* The memory of a node after its last owner dropped it.
Released == [prev |-> None, value |-> "released", strong |-> 0]

\* Dropping an Arc: one owner less; the last owner releases the node, which
\* drops the node's own prev Arc in turn.
RECURSIVE ArcDrop(_, _)
ArcDrop(h, n) ==
    IF n = None THEN h
    ELSE IF h[n].strong > 1 THEN [h EXCEPT ![n].strong = @ - 1]
    ELSE ArcDrop([h EXCEPT ![n] = Released], h[n].prev)

ListNew == [node |-> None, length |-> 0, live |-> TRUE]

\* A handle that went out of scope.
Dropped == [node |-> None, length |-> 0, live |-> FALSE]

ListLen(l) == l.length

ListIsEmpty(l) == l.length = 0

\* The node List::append allocates: prev is the receiver's head.
AppendNode(l, value) == Node(l.node, value)

\* The returned list keeps the receiver's length.
M_AppendList_SameLength(l, id) == [node |-> id, length |-> l.length, live |-> TRUE]

\* The list List::append returns: its head is the new node `id`.
AppendList(l, id) == [node |-> id, length |-> l.length + 1, live |-> TRUE]

\* An append that also writes the new value into the receiver's head node.
M_ListAppend_InPlace(h, l, value) ==
    LET h1 == Append(ArcClone(h, l.node), [prev |-> l.node, value |-> value, strong |-> 1])
    IN  [heap |-> IF l.node = 0 THEN h1 ELSE [h1 EXCEPT ![l.node].value = value],
         list |-> [node |-> Len(h) + 1, length |-> l.length + 1, live |-> TRUE]]

\* List::append as one call: clone the receiver's head, allocate, return.
ListAppend(h, l, value) ==
    [heap |-> Append(ArcClone(h, l.node), AppendNode(l, value)),
     list |-> AppendList(l, Len(h) + 1)]

\* The values of the nodes reachable from node n through prev links.
RECURSIVE Chain(_, _)
Chain(h, n) == IF n = None THEN <<>> ELSE <<h[n].value>> \o Chain(h, h[n].prev)

\* The nodes reachable from node n through prev links.
RECURSIVE ChainNodes(_, _)
ChainNodes(h, n) == IF n = None THEN <<>> ELSE <<n>> \o ChainNodes(h, h[n].prev)

Reverse(s) == [i \in 1 .. Len(s) |-> s[Len(s) + 1 - i]]

(***************************************************************************)
(* The list machine: threads appending to lists and dropping them while    *)
(* one iterator walks a list.  Arc operations are atomic steps; Iter::next, *)
(* which performs several of them, is several steps.                       *)
(***************************************************************************)
NoIter == [pc |-> "none", list |-> 0, next |-> None, node |-> None, old |-> None,
           done |-> FALSE, since |-> 0]

Borrowed(i) == iter.pc # "none" /\ iter.list = i

\* List::append called by thread t on list i.  Its one access to shared memory
\* is the atomic increment of self.node.clone(); the node it allocates is its
\* own until the call returns, so the call is one step.  The iterating thread
\* calls it between two calls of Iter::next, another thread at any point.
ListAppendCall(t, i, value) ==
    /\ t = IterThread => iter.pc \in {"none", "ready"}
    /\ lists[i].live
    /\ Len(heap) < MaxNodes
    /\ heap' = ListAppend(heap, lists[i], value).heap
    /\ lists' = Append(lists, ListAppend(heap, lists[i], value).list)
    /\ built' = Append(built, Append(built[i], value))
    /\ origin' = Append(origin, i)
    /\ UNCHANGED <<iter, yielded>>

\* A list handle goes out of scope; the borrow checker rules this out while
\* an iterator (or an item it returned) borrows the list.
ListDrop(i) ==
    /\ lists[i].live
    /\ ~Borrowed(i)
    /\ heap' = ArcDrop(heap, lists[i].node)
    /\ lists' = [lists EXCEPT ![i] = Dropped]
    /\ built' = [built EXCEPT ![i] = <<>>]
    /\ origin' = [origin EXCEPT ![i] = 0]
    /\ UNCHANGED <<iter, yielded>>

\* List::iter / Iter::new: next is None, node is a clone of the list's head.
IterNew(i) ==
    /\ iter.pc = "none"
    /\ lists[i].live
    /\ heap' = ArcClone(heap, lists[i].node)
    /\ iter' = [NoIter EXCEPT !.pc = "ready", !.list = i, !.node = lists[i].node,
                              !.since = Len(lists)]
    /\ UNCHANGED <<lists, built, origin, yielded>>

\* Iter::next: `let mut node = self.node.take(); swap(&mut self.next, &mut node);`
IterTake ==
    /\ iter.pc = "ready"
    /\ iter' = [iter EXCEPT !.pc = "taken", !.next = iter.node, !.node = None,
                            !.old = iter.next]
    /\ UNCHANGED <<heap, lists, built, origin, yielded>>

\* The node Iter::next stores in self.node: the prev of self.next, if there is one.
IterPrev(h, it) == IF it.next = None THEN None ELSE h[it.next].prev

\* Iter::next: `if let Some(prev) = .. { self.node = Some(Arc::clone(prev)); }`
IterLink ==
    /\ iter.pc = "taken"
    /\ heap' = ArcClone(heap, IterPrev(heap, iter))
    /\ iter' = [iter EXCEPT !.pc = "linked", !.node = IterPrev(heap, iter)]
    /\ UNCHANGED <<lists, built, origin, yielded>>

\* What Iter::next returns: a reference to self.next's value, or None.
IterItem(h, it) ==
    IF it.next = None THEN <<>> ELSE <<[node |-> it.next, value |-> h[it.next].value]>>

\* Iter::next: the returned item; the local `node` (the old self.next) is dropped.
IterReturn ==
    /\ iter.pc = "linked"
    /\ yielded' = yielded \o IterItem(heap, iter)
    /\ heap' = ArcDrop(heap, iter.old)
    /\ iter' = [iter EXCEPT !.pc = "ready", !.old = None,
                            !.done = (IterItem(heap, iter) = <<>>)]
    /\ UNCHANGED <<lists, built, origin>>

\* The iterator and the items it returned go out of scope.
IterDrop ==
    /\ iter.pc = "ready"
    /\ heap' = ArcDrop(ArcDrop(heap, iter.next), iter.node)
    /\ iter' = NoIter
    /\ yielded' = <<>>
    /\ UNCHANGED <<lists, built, origin>>

IdleOthers ==
    /\ shown = [path |-> 0, text |-> ""]
    /\ report = <<>> /\ appended = <<>> /\ rendered = "-"
    /\ objs = <<>> /\ result = [op |-> "none"] /\ validated = {}

InitList ==
    /\ heap = <<>>
    /\ lists = <<ListNew>>
    /\ built = << <<>> >>
    /\ origin = <<0>>
    /\ iter = NoIter
    /\ yielded = <<>>
    /\ IdleOthers

NextList ==
    \/ \E t \in Threads, i \in DOMAIN lists, v \in Vals :
            ListAppendCall(t, i, v) /\ UNCHANGED <<pathVars, reportVars, validVars>>
    \/ \E i \in DOMAIN lists : ListDrop(i) /\ UNCHANGED <<pathVars, reportVars, validVars>>
    \/ \E i \in DOMAIN lists : IterNew(i) /\ UNCHANGED <<pathVars, reportVars, validVars>>
    \/ IterTake /\ UNCHANGED <<pathVars, reportVars, validVars>>
    \/ IterLink /\ UNCHANGED <<pathVars, reportVars, validVars>>
    \/ IterReturn /\ UNCHANGED <<pathVars, reportVars, validVars>>
    \/ IterDrop /\ UNCHANGED <<pathVars, reportVars, validVars>>

SpecList == InitList /\ [][NextList]_vars

(***************************************************************************)
(* error/mod.rs: Kind, PathComponentKind, Path                             *)
(***************************************************************************)

\* The component types that implement PathComponentKind, as the caller passes
\* them: a usize, a &str (or CompactString), the NoKey marker.
Usize(n) == [ty |-> "usize", n |-> n, s |-> ""]
Str(s) == [ty |-> "str", n |-> 0, s |-> s]
NoKey == [ty |-> "NoKey", n |-> 0, s |-> ""]

\* impl_path_component_kind!: usize => Index, &str => Key, NoKey => None.
ComponentKind(c) ==
    CASE c.ty = "usize" -> "Index"
      [] c.ty = "str" -> "Key"
      [] c.ty = "NoKey" -> "None"

Digit(d) ==
    CASE d = 0 -> "0" [] d = 1 -> "1" [] d = 2 -> "2" [] d = 3 -> "3" [] d = 4 -> "4"
      [] d = 5 -> "5" [] d = 6 -> "6" [] d = 7 -> "7" [] d = 8 -> "8" [] d = 9 -> "9"

\* Display of a usize: its decimal digits.
RECURSIVE UsizeToString(_)
UsizeToString(n) ==
    IF n < 10 THEN Digit(n) ELSE UsizeToString(n \div 10) \o Digit(n % 10)

\* ToCompactString: what the component's Display writes (NoKey writes nothing).
ToCompactString(c) ==
    CASE c.ty = "usize" -> UsizeToString(c.n)
      [] c.ty = "str" -> c.s
      [] c.ty = "NoKey" -> ""

\* The (Kind, CompactString) pair Path::new and Path::join store.
Component(c) == [kind |-> ComponentKind(c), text |-> ToCompactString(c)]

\* Path::empty / Path::len / Path::is_empty: a Path is its components list.
PathEmpty == ListNew
PathLen(p) == ListLen(p)
PathIsEmpty(p) == ListIsEmpty(p)

\* Path::join: the components list with one more component appended.
PathJoin(h, p, c) == ListAppend(h, p, Component(c))

\* Path::new: List::new().append(..).
PathNew(h, c) == ListAppend(h, ListNew, Component(c))

\* Path::__iter: the components as the list's iterator returns them, newest first.
PathIter(h, p) == Chain(h, p.node)

\* A separator chosen by the kind of the component just written: nothing
\* after a None-kind component, "." after the others unless an index follows.
M_FmtComponent_SeparatorByCurrent(comps, k, first) ==
    (IF first /\ comps[k].kind = "Index" THEN "[" ELSE "")
    \o comps[k].text
    \o (IF comps[k].kind = "Index" THEN "]" ELSE "")
    \o (IF k < Len(comps)
         THEN (IF comps[k + 1].kind = "Index" THEN "["
               ELSE IF comps[k].kind = "None" THEN "" ELSE ".")
         ELSE "")

\* The opening bracket of an index is written only by the separator, so an
\* index-first path loses it.
M_FmtComponent_NoLeadingBracket(comps, k, first) ==
    comps[k].text
    \o (IF comps[k].kind = "Index" THEN "]" ELSE "")
    \o (IF k < Len(comps)
         THEN (CASE comps[k + 1].kind = "None" -> ""
                 [] comps[k + 1].kind = "Key" -> "."
                 [] comps[k + 1].kind = "Index" -> "[")
         ELSE "")

\* Display for Path, what follows a component: chosen by the kind of the
\* component the iterator peeks at.
Separator(peeked) ==
    CASE peeked = "None" -> ""
      [] peeked = "Key" -> "."
      [] peeked = "Index" -> "["

\* Display for Path, one turn of the while loop on component k of comps.
FmtComponent(comps, k, first) ==
    (IF first /\ comps[k].kind = "Index" THEN "[" ELSE "")
    \o comps[k].text
    \o (IF comps[k].kind = "Index" THEN "]" ELSE "")
    \o (IF k < Len(comps) THEN Separator(comps[k + 1].kind) ELSE "")

RECURSIVE FmtLoop(_, _, _)
FmtLoop(comps, k, first) ==
    IF k > Len(comps) THEN ""
    ELSE FmtComponent(comps, k, first) \o FmtLoop(comps, k + 1, FALSE)

\* Display for Path: the loop over self.__iter().rev().
PathDisplay(h, p) == FmtLoop(Reverse(PathIter(h, p)), 1, TRUE)

(***************************************************************************)
(* The path machine: a caller building paths with Path::new and Path::join *)
(* (from any path built so far) and formatting them.                       *)
(***************************************************************************)
Components == {Str("a"), Str("b"), Usize(0), Usize(10), NoKey}

PathNewCall(c) ==
    /\ Len(heap) < MaxNodes
    /\ heap' = PathNew(heap, c).heap
    /\ lists' = Append(lists, PathNew(heap, c).list)
    /\ built' = Append(built, <<c>>)
    /\ UNCHANGED <<origin, iter, yielded, shown>>

PathJoinCall(i, c) ==
    /\ Len(heap) < MaxNodes
    /\ heap' = PathJoin(heap, lists[i], c).heap
    /\ lists' = Append(lists, PathJoin(heap, lists[i], c).list)
    /\ built' = Append(built, Append(built[i], c))
    /\ UNCHANGED <<origin, iter, yielded, shown>>

PathDisplayCall(i) ==
    /\ shown' = [path |-> i, text |-> PathDisplay(heap, lists[i])]
    /\ UNCHANGED <<heap, listVars>>

InitPath ==
    /\ heap = <<>>
    /\ lists = <<PathEmpty>>
    /\ built = << <<>> >>
    /\ origin = <<0>>
    /\ iter = NoIter
    /\ yielded = <<>>
    /\ shown = [path |-> 0, text |-> ""]
    /\ report = <<>> /\ appended = <<>> /\ rendered = "-"
    /\ objs = <<>> /\ result = [op |-> "none"] /\ validated = {}

NextPath ==
    \/ \E c \in Components : PathNewCall(c) /\ UNCHANGED <<reportVars, validVars>>
    \/ \E i \in DOMAIN lists, c \in Components :
            PathJoinCall(i, c) /\ UNCHANGED <<reportVars, validVars>>
    \/ \E i \in DOMAIN lists : PathDisplayCall(i) /\ UNCHANGED <<reportVars, validVars>>

SpecPath == InitPath /\ [][NextPath]_vars

(***************************************************************************)
(* error/mod.rs: Error, Report                                             *)
(***************************************************************************)
DEFAULT_MAX_ERROR_REPORT == 10

\* Error::new stores the message as it is; Display for Error writes it.
ErrorNew(message) == [message |-> message]
ErrorDisplay(e) == e.message

\* Report::new: an empty SmallVec of (Path, Error) pairs.
ReportNew == <<>>

\* A push that stops growing once the inline capacity is full.
M_ReportAppend_Capped(r, path, error) ==
    IF Len(r) >= DEFAULT_MAX_ERROR_REPORT THEN r ELSE Append(r, <<path, error>>)

\* Report::append: self.errors.push((path, error)).
ReportAppend(r, path, error) == Append(r, <<path, error>>)

\* Report::is_empty.
ReportIsEmpty(r) == Len(r) = 0

\* A line that writes the path and the colon whatever the path is.
M_ReportLine_NoEmptyTest(h, pair) ==
    PathDisplay(h, pair[1]) \o ": " \o ErrorDisplay(pair[2]) \o "\n"

\* Display for Report, one pair: writeln!("{error}") or writeln!("{path}: {error}").
ReportLine(h, pair) ==
    IF PathIsEmpty(pair[1]) THEN ErrorDisplay(pair[2]) \o "\n"
    ELSE PathDisplay(h, pair[1]) \o ": " \o ErrorDisplay(pair[2]) \o "\n"

\* Display for Report: the loop over self.iter().
RECURSIVE ReportDisplayFrom(_, _, _)
ReportDisplayFrom(h, r, k) ==
    IF k > Len(r) THEN "" ELSE ReportLine(h, r[k]) \o ReportDisplayFrom(h, r, k + 1)

ReportDisplay(h, r) == ReportDisplayFrom(h, r, 1)

(***************************************************************************)
(* validate.rs: Validate, and the User of its tests                        *)
(***************************************************************************)

\* A User: username is a String, here the sequence of its characters; age a u8.
User(username, age) == [username |-> username, age |-> age]

IsWhitespace(c) == c = " "

\* str::trim: the string without its leading and trailing whitespace.
RECURSIVE TrimStart(_)
TrimStart(s) ==
    IF Len(s) > 0 /\ IsWhitespace(s[1]) THEN TrimStart(SubSeq(s, 2, Len(s))) ELSE s

RECURSIVE TrimEnd(_)
TrimEnd(s) ==
    IF Len(s) > 0 /\ IsWhitespace(s[Len(s)]) THEN TrimEnd(SubSeq(s, 1, Len(s) - 1)) ELSE s

Trim(s) == TrimEnd(TrimStart(s))

\* The two rules of User::validate_into.
UsernameRuleFails(u) == Len(Trim(u.username)) = 0
AgeRuleFails(u) == u.age < 18

\* The messages of the two rules.  A character outside ASCII is written
\* <U+hhhh>: the second literal holds, between "be " and " 18", the three
\* characters U+00E2 U+2030 U+00A5 (bytes c3 a2, e2 80 b0, c2 a5).
MsgUsername == "username must not be empty"
MsgAge == "age must be <U+00E2><U+2030><U+00A5> 18"

\* The first rule: `let path = parent().join("username"); report.append(..)`.
\* st is the pair of the allocations and the report the call works on.
CheckUsername(u, parent, st) ==
    IF UsernameRuleFails(u)
    THEN [heap |-> PathJoin(st.heap, parent, Str("username")).heap,
          report |-> ReportAppend(st.report,
                                  PathJoin(st.heap, parent, Str("username")).list,
                                  ErrorNew(MsgUsername))]
    ELSE st

\* The second rule: `let path = parent().join("age"); report.append(..)`.
CheckAge(u, parent, st) ==
    IF AgeRuleFails(u)
    THEN [heap |-> PathJoin(st.heap, parent, Str("age")).heap,
          report |-> ReportAppend(st.report,
                                  PathJoin(st.heap, parent, Str("age")).list,
                                  ErrorNew(MsgAge))]
    ELSE st

\* A validate_into that returns at the first failing rule.
M_UserValidateInto_FailFast(u, ctx, parent, st) ==
    IF UsernameRuleFails(u) THEN CheckUsername(u, parent, st) ELSE CheckAge(u, parent, st)

\* User::validate_into: both rules, one after the other; ctx is not read.
UserValidateInto(u, ctx, parent, st) == CheckAge(u, parent, CheckUsername(u, parent, st))

\* Result<(), Report>: Ok(()) carries no report.
Ok == [ok |-> TRUE, report |-> ReportNew, heap |-> <<>>]
Err(st) == [ok |-> FALSE, report |-> st.report, heap |-> st.heap]

\* A validate_with that answers Ok whatever the report holds.
M_ValidateWith_AlwaysOk(u, ctx) == [ok |-> TRUE, report |-> <<>>, heap |-> <<>>]

\* Validate::validate_with: a new report, validate_into once with the empty
\* root path, then the match on report.is_empty().
ValidateWith(u, ctx) ==
    LET st == UserValidateInto(u, ctx, PathEmpty, [heap |-> <<>>, report |-> ReportNew])
    IN  IF ReportIsEmpty(st.report) THEN Ok ELSE Err(st)

\* Context::default() of the unit context of User.
DefaultContext == "unit"

\* Validate::validate: validate_with on the default context.
Validate(u) == ValidateWith(u, DefaultContext)

\* Result<Valid<T>, Report>: the `?` returns the Err; otherwise Ok(Valid(self.0)).
\* valid holds the wrapped value, if one is returned.
WrapValid(r, u) == [ok |-> r.ok, report |-> r.report, heap |-> r.heap,
                    valid |-> IF r.ok THEN <<u>> ELSE <<>>]

\* A validate that ignores the Err and wraps the value all the same.
M_UnvalidatedValidate_NoCheck(u) ==
    [ok |-> Validate(u).ok, report |-> Validate(u).report, heap |-> Validate(u).heap,
     valid |-> <<u>>]

\* Unvalidated::validate.
UnvalidatedValidate(u) == WrapValid(Validate(u), u)

\* Unvalidated::validate_with.
UnvalidatedValidateWith(u, ctx) == WrapValid(ValidateWith(u, ctx), u)

(***************************************************************************)
(* The report machine: a caller appending (path, error) pairs to a report, *)
(* or handing a new report to User::validate_into, and formatting it.      *)
(***************************************************************************)

\* The path Path::empty().join(c1).join(c2).. built on the allocations h.
RECURSIVE BuildPath(_, _, _, _)
BuildPath(h, p, comps, k) ==
    IF k > Len(comps) THEN [heap |-> h, list |-> p]
    ELSE BuildPath(PathJoin(h, p, comps[k]).heap, PathJoin(h, p, comps[k]).list, comps, k + 1)

ReportInputs ==
    {[path |-> <<>>, error |-> "invalid"],
     [path |-> <<Str("items"), Usize(0)>>, error |-> "too long"]}

\* The users of the spec's two scenarios, and one whose username is blank.
ScenarioUsers == {User(<<>>, 10), User(<<"b", "o", "b">>, 22), User(<<" ">>, 18)}

\* The append calls User::validate_into makes for u, in order.
RuleCalls(u) ==
    (IF UsernameRuleFails(u) THEN <<[path |-> <<Str("username")>>, error |-> MsgUsername]>>
     ELSE <<>>)
    \o (IF AgeRuleFails(u) THEN <<[path |-> <<Str("age")>>, error |-> MsgAge]>> ELSE <<>>)

ReportAppendCall(in) ==
    /\ Len(appended) < MaxAppends
    /\ heap' = BuildPath(heap, PathEmpty, in.path, 1).heap
    /\ report' = ReportAppend(report, BuildPath(heap, PathEmpty, in.path, 1).list,
                              ErrorNew(in.error))
    /\ appended' = Append(appended, in)
    /\ rendered' = "-"
    /\ UNCHANGED result

\* User::validate_into on a new report, as the entry points call it.
ValidateIntoCall(u) ==
    /\ result.op = "none" /\ appended = <<>>
    /\ heap' = UserValidateInto(u, DefaultContext, PathEmpty,
                                [heap |-> heap, report |-> report]).heap
    /\ report' = UserValidateInto(u, DefaultContext, PathEmpty,
                                  [heap |-> heap, report |-> report]).report
    /\ appended' = RuleCalls(u)
    /\ result' = [op |-> "validate_into", user |-> u]
    /\ rendered' = "-"

ReportDisplayCall ==
    /\ rendered' = ReportDisplay(heap, report)
    /\ UNCHANGED <<heap, report, appended, result>>

InitReport ==
    /\ heap = <<>>
    /\ report = ReportNew /\ appended = <<>> /\ rendered = "-"
    /\ result = [op |-> "none"]
    /\ lists = <<>> /\ built = <<>> /\ origin = <<>> /\ iter = NoIter /\ yielded = <<>>
    /\ shown = [path |-> 0, text |-> ""]
    /\ objs = <<>> /\ validated = {}

NextReport ==
    \/ \E in \in ReportInputs :
            ReportAppendCall(in) /\ UNCHANGED <<listVars, pathVars, objs, validated>>
    \/ \E u \in ScenarioUsers :
            ValidateIntoCall(u) /\ UNCHANGED <<listVars, pathVars, objs, validated>>
    \/ ReportDisplayCall /\ UNCHANGED <<listVars, pathVars, objs, validated>>

SpecReport == InitReport /\ [][NextReport]_vars

(***************************************************************************)
(* The entry points, each applied to any User.                             *)
(***************************************************************************)
Usernames ==
    {<<>>, <<" ">>, <<" ", " ">>, <<"b">>, <<" ", "b", " ">>, <<"b", "o", "b">>}
Ages == {0, 10, 17, 18, 22, 255}
Users == {User(n, a) : n \in Usernames, a \in Ages}
Contexts == {DefaultContext}

\* user.validate()
ValidateCall(u) ==
    /\ result' = [op |-> "Validate::validate", user |-> u, ok |-> Validate(u).ok,
                  report |-> Validate(u).report, valid |-> <<>>]
    /\ heap' = Validate(u).heap

\* user.validate_with(&ctx)
ValidateWithCall(u, ctx) ==
    /\ result' = [op |-> "Validate::validate_with", user |-> u,
                  ok |-> ValidateWith(u, ctx).ok,
                  report |-> ValidateWith(u, ctx).report, valid |-> <<>>]
    /\ heap' = ValidateWith(u, ctx).heap

\* Unvalidated::new(user).validate()
UnvalidatedValidateCall(u) ==
    /\ result' = [op |-> "Unvalidated::validate", user |-> u,
                  ok |-> UnvalidatedValidate(u).ok,
                  report |-> UnvalidatedValidate(u).report,
                  valid |-> UnvalidatedValidate(u).valid]
    /\ heap' = UnvalidatedValidate(u).heap

\* Unvalidated::new(user).validate_with(&ctx)
UnvalidatedValidateWithCall(u, ctx) ==
    /\ result' = [op |-> "Unvalidated::validate_with", user |-> u,
                  ok |-> UnvalidatedValidateWith(u, ctx).ok,
                  report |-> UnvalidatedValidateWith(u, ctx).report,
                  valid |-> UnvalidatedValidateWith(u, ctx).valid]
    /\ heap' = UnvalidatedValidateWith(u, ctx).heap

InitValidate ==
    /\ heap = <<>>
    /\ result = [op |-> "none"]
    /\ report = <<>> /\ appended = <<>> /\ rendered = "-"
    /\ lists = <<>> /\ built = <<>> /\ origin = <<>> /\ iter = NoIter /\ yielded = <<>>
    /\ shown = [path |-> 0, text |-> ""]
    /\ objs = <<>> /\ validated = {}

NextValidate ==
    \/ \E u \in Users : ValidateCall(u)
            /\ UNCHANGED <<listVars, pathVars, reportVars, objs, validated>>
    \/ \E u \in Users, ctx \in Contexts : ValidateWithCall(u, ctx)
            /\ UNCHANGED <<listVars, pathVars, reportVars, objs, validated>>
    \/ \E u \in Users : UnvalidatedValidateCall(u)
            /\ UNCHANGED <<listVars, pathVars, reportVars, objs, validated>>
    \/ \E u \in Users, ctx \in Contexts : UnvalidatedValidateWithCall(u, ctx)
            /\ UNCHANGED <<listVars, pathVars, reportVars, objs, validated>>

SpecValidate == InitValidate /\ [][NextValidate]_vars

(***************************************************************************)
(* The typestate machine: the values a caller owns, bare, wrapped in       *)
(* Unvalidated or wrapped in Valid, and every operation of the public      *)
(* interface that makes, moves or consumes one.                            *)
(***************************************************************************)
Slots == 1 .. MaxObjs
Free == [kind |-> "free", val |-> User(<<>>, 0)]

\* What #[derive(Default)] gives for a T of a String and a u8.
DefaultUser == User(<<>>, 0)

\* The caller makes a User.
MakeUser(s, u) ==
    /\ objs[s].kind = "free"
    /\ objs' = [objs EXCEPT ![s] = [kind |-> "T", val |-> u]]
    /\ UNCHANGED validated

\* Unvalidated::new(v) and From<T>: Self(v).
UnvalidatedNew(s) ==
    /\ objs[s].kind = "T"
    /\ objs' = [objs EXCEPT ![s].kind = "Unvalidated"]
    /\ UNCHANGED validated

UnvalidatedFrom(s) ==
    /\ objs[s].kind = "T"
    /\ objs' = [objs EXCEPT ![s].kind = "Unvalidated"]
    /\ UNCHANGED validated

\* #[derive(Default)] on Unvalidated.
UnvalidatedDefault(s) ==
    /\ objs[s].kind = "free"
    /\ objs' = [objs EXCEPT ![s] = [kind |-> "Unvalidated", val |-> DefaultUser]]
    /\ UNCHANGED validated

\* #[derive(Clone, Copy)] on Unvalidated and on Valid: the same wrapper around
\* a copy of the value.
WrapperClone(s, t) ==
    /\ objs[s].kind \in {"Unvalidated", "Valid"}
    /\ objs[t].kind = "free"
    /\ objs' = [objs EXCEPT ![t] = objs[s]]
    /\ UNCHANGED validated

\* The wrapper an entry-point call on Unvalidated leaves in slot s: a Valid
\* when the call returned one, nothing when it returned the report.
Outcome(r) == IF r.valid = <<>> THEN Free ELSE [kind |-> "Valid", val |-> r.valid[1]]

\* unvalidated.validate(): consumes the wrapper.
TypestateValidate(s) ==
    /\ objs[s].kind = "Unvalidated"
    /\ objs' = [objs EXCEPT ![s] = Outcome(UnvalidatedValidate(objs[s].val))]
    /\ validated' = IF UnvalidatedValidate(objs[s].val).ok
                    THEN validated \cup {objs[s].val} ELSE validated

\* unvalidated.validate_with(&ctx): consumes the wrapper.
TypestateValidateWith(s, ctx) ==
    /\ objs[s].kind = "Unvalidated"
    /\ objs' = [objs EXCEPT ![s] = Outcome(UnvalidatedValidateWith(objs[s].val, ctx))]
    /\ validated' = IF UnvalidatedValidateWith(objs[s].val, ctx).ok
                    THEN validated \cup {objs[s].val} ELSE validated

\* Validate::validate on a bare value, or on a Valid through Deref: the
\* caller gets a Result<(), Report> and no wrapper.
ValidateByRef(s) ==
    /\ objs[s].kind \in {"T", "Valid"}
    /\ UNCHANGED <<objs, validated>>

\* Valid::into_inner: the bare value.
ValidIntoInner(s) ==
    /\ objs[s].kind = "Valid"
    /\ objs' = [objs EXCEPT ![s].kind = "T"]
    /\ UNCHANGED validated

\* A value goes out of scope.
ObjDrop(s) ==
    /\ objs[s].kind # "free"
    /\ objs' = [objs EXCEPT ![s] = Free]
    /\ UNCHANGED validated

InitTypestate ==
    /\ objs = [s \in Slots |-> Free]
    /\ validated = {}
    /\ heap = <<>>
    /\ result = [op |-> "none"]
    /\ report = <<>> /\ appended = <<>> /\ rendered = "-"
    /\ lists = <<>> /\ built = <<>> /\ origin = <<>> /\ iter = NoIter /\ yielded = <<>>
    /\ shown = [path |-> 0, text |-> ""]

NextTypestate ==
    \/ \E s \in Slots, u \in ScenarioUsers : MakeUser(s, u)
            /\ UNCHANGED <<heap, listVars, pathVars, reportVars, result>>
    \/ \E s \in Slots : UnvalidatedNew(s)
            /\ UNCHANGED <<heap, listVars, pathVars, reportVars, result>>
    \/ \E s \in Slots : UnvalidatedFrom(s)
            /\ UNCHANGED <<heap, listVars, pathVars, reportVars, result>>
    \/ \E s \in Slots : UnvalidatedDefault(s)
            /\ UNCHANGED <<heap, listVars, pathVars, reportVars, result>>
    \/ \E s, t \in Slots : WrapperClone(s, t)
            /\ UNCHANGED <<heap, listVars, pathVars, reportVars, result>>
    \/ \E s \in Slots : TypestateValidate(s)
            /\ UNCHANGED <<heap, listVars, pathVars, reportVars, result>>
    \/ \E s \in Slots, ctx \in Contexts : TypestateValidateWith(s, ctx)
            /\ UNCHANGED <<heap, listVars, pathVars, reportVars, result>>
    \/ \E s \in Slots : ValidateByRef(s)
            /\ UNCHANGED <<heap, listVars, pathVars, reportVars, result>>
    \/ \E s \in Slots : ValidIntoInner(s)
            /\ UNCHANGED <<heap, listVars, pathVars, reportVars, result>>
    \/ \E s \in Slots : ObjDrop(s)
            /\ UNCHANGED <<heap, listVars, pathVars, reportVars, result>>

SpecTypestate == InitTypestate /\ [][NextTypestate]_vars

(***************************************************************************)
(* Properties of the path machine.                                         *)
(***************************************************************************)

\* The notation of a path of components cs (root to tail): an Index is written
\* [text], a Key its text, preceded by "." when it is not the first component;
\* a None-kind component its bare text.
RECURSIVE Notation(_, _)
Notation(cs, j) ==
    IF j > Len(cs) THEN ""
    ELSE (CASE ComponentKind(cs[j]) = "Index" -> "[" \o ToCompactString(cs[j]) \o "]"
            [] ComponentKind(cs[j]) = "Key" ->
                    (IF j > 1 THEN "." ELSE "") \o ToCompactString(cs[j])
            [] ComponentKind(cs[j]) = "None" -> ToCompactString(cs[j]))
         \o Notation(cs, j + 1)

\* The notation as the claim C5 has it: as Notation, but a Key that follows a
\* None-kind component is written without the "." before it.
RECURSIVE NotationNoSeparatorAfterNone(_, _)
NotationNoSeparatorAfterNone(cs, j) ==
    IF j > Len(cs) THEN ""
    ELSE (CASE ComponentKind(cs[j]) = "Index" -> "[" \o ToCompactString(cs[j]) \o "]"
            [] ComponentKind(cs[j]) = "Key" ->
                    (IF j > 1 /\ ComponentKind(cs[j - 1]) # "None" THEN "." ELSE "")
                    \o ToCompactString(cs[j])
            [] ComponentKind(cs[j]) = "None" -> ToCompactString(cs[j]))
         \o NotationNoSeparatorAfterNone(cs, j + 1)

OnlyKeysAndIndices(cs) == \A j \in DOMAIN cs : ComponentKind(cs[j]) \in {"Key", "Index"}

HasNone(cs) == \E j \in DOMAIN cs : ComponentKind(cs[j]) = "None"

NoneThenAnother(cs) ==
    \E j \in DOMAIN cs : j < Len(cs) /\ ComponentKind(cs[j]) = "None"

\* C4: a displayed path built from Key and Index components reads, in join
\* order, [text] for an Index and text for a Key, with "." before a Key that
\* is not first and nothing before the first component: a.b, a[0], [0], a.
C4_DisplayKeysAndIndices ==
    (shown.path # 0 /\ OnlyKeysAndIndices(built[shown.path])) =>
        /\ shown.text = Notation(built[shown.path], 1)
        /\ built[shown.path] = <<Str("a"), Str("b")>> => shown.text = "a.b"
        /\ built[shown.path] = <<Str("a"), Usize(0)>> => shown.text = "a[0]"
        /\ built[shown.path] = <<Usize(0)>> => shown.text = "[0]"
        /\ built[shown.path] = <<Str("a")>> => shown.text = "a"

\* The path a[10].b has been displayed.
C4_Witness ==
    /\ shown.path # 0
    /\ built[shown.path] = <<Str("a"), Usize(10), Str("b")>>
    /\ shown.text = "a[10].b"

\* C5 as claimed: in a displayed path nothing is written between a None-kind
\* component and the component that follows it.
C5_Original_NoSeparatorAfterNone ==
    (shown.path # 0 /\ NoneThenAnother(built[shown.path])) =>
        shown.text = NotationNoSeparatorAfterNone(built[shown.path], 1)

\* C5 as amended: a None-kind component is written as its bare text with no
\* separator between it and the component before it; the component after it
\* is written as after any other component, a Key with "." before it and an
\* Index as [text]: NoKey then "a" displays as .a, "a" then NoKey as a.
C5_NoSeparatorBeforeNone ==
    (shown.path # 0 /\ HasNone(built[shown.path])) =>
        /\ shown.text = Notation(built[shown.path], 1)
        /\ built[shown.path] = <<NoKey, Str("a")>> => shown.text = ".a"
        /\ built[shown.path] = <<Str("a"), NoKey>> => shown.text = "a"

\* A path with a NoKey between two keys has been displayed.
C5_Witness ==
    /\ shown.path # 0
    /\ built[shown.path] = <<Str("a"), NoKey, Str("b")>>
    /\ shown.text = "a.b"

(***************************************************************************)
(* Properties of the report machine, the entry points and the typestate.   *)
(***************************************************************************)

\* The pairs a report holds, each as its path's components from the root to
\* the tail and its error's message.
Held(h, r) ==
    [k \in 1 .. Len(r) |-> [path |-> Reverse(PathIter(h, r[k][1])), error |-> r[k][2].message]]

\* The pairs passed in the calls cs, in the same form.
Passed(cs) ==
    [k \in 1 .. Len(cs) |->
        [path |-> [j \in 1 .. Len(cs[k].path) |-> Component(cs[k].path[j])],
         error |-> cs[k].error]]

\* One line per call: the error alone for an empty path, else path: error.
RECURSIVE Lines(_, _)
Lines(cs, k) ==
    IF k > Len(cs) THEN ""
    ELSE (IF Len(cs[k].path) = 0 THEN cs[k].error \o "\n"
          ELSE Notation(cs[k].path, 1) \o ": " \o cs[k].error \o "\n")
         \o Lines(cs, k + 1)

\* The number of rules of User that u fails.
Failing(u) == (IF UsernameRuleFails(u) THEN 1 ELSE 0) + (IF AgeRuleFails(u) THEN 1 ELSE 0)

\* C1: an entry point returns success iff the report is empty after one run
\* of validate_into with the empty root path on a new report; on failure it
\* returns that report, every pair of it; a value that fails no rule
\* validates successfully (and Unvalidated's entry points then return it).
C1_SuccessIffReportEmpty ==
    result.op # "none" =>
        LET st == UserValidateInto(result.user, DefaultContext, PathEmpty,
                                   [heap |-> <<>>, report |-> ReportNew])
        IN  /\ result.ok <=> ReportIsEmpty(st.report)
            /\ ~result.ok => (result.report = st.report /\ heap = st.heap
                              /\ Len(result.report) > 0)
            /\ Failing(result.user) = 0 => result.ok
            /\ result.op \in {"Unvalidated::validate", "Unvalidated::validate_with"} =>
                    (result.valid = IF result.ok THEN <<result.user>> ELSE <<>>)

\* Unvalidated::validate has failed with a report of two pairs.
C1_Witness ==
    /\ result.op = "Unvalidated::validate"
    /\ ~result.ok
    /\ Len(result.report) = 2

\* C2: one entry-point call on a value that fails N of the rules returns a
\* report of exactly N pairs, one per failing rule in the order of the rules:
\* the username rule's pair before the age rule's.
C2_FullAggregation ==
    result.op # "none" =>
        /\ Len(result.report) = Failing(result.user)
        /\ Held(heap, result.report) = Passed(RuleCalls(result.user))

\* validate() on a value that fails both rules has returned two pairs.
C2_Witness ==
    /\ result.op = "Validate::validate"
    /\ Failing(result.user) = 2
    /\ Len(result.report) = 2
    /\ result.report[1][2].message = MsgUsername
    /\ result.report[2][2].message = MsgAge

\* C3: every Valid<T> the caller owns wraps a value for which a call of
\* Unvalidated::validate or Unvalidated::validate_with has returned Ok.
C3_ValidWasValidated ==
    \A s \in Slots : objs[s].kind = "Valid" => objs[s].val \in validated

\* A Valid made by a successful validation, and the bare value that
\* into_inner returned for a copy of it.
C3_Witness ==
    /\ objs[1].kind = "Valid"
    /\ objs[2].kind = "T" /\ objs[2].val = objs[1].val
    /\ objs[1].val \in validated

\* C8: after k Report::append calls on a new report the report holds exactly
\* the k pairs passed, in the order of the calls, and is_empty() iff k = 0.
C8_ReportKeepsEveryPair ==
    /\ Len(report) = Len(appended)
    /\ Held(heap, report) = Passed(appended)
    /\ ReportIsEmpty(report) <=> (Len(appended) = 0)

\* Eleven pairs, more than the inline capacity, with a pair appended twice in
\* a row and two different pairs.
C8_Witness ==
    /\ Len(appended) = DEFAULT_MAX_ERROR_REPORT + 1
    /\ Len(report) = DEFAULT_MAX_ERROR_REPORT + 1
    /\ appended[1] = appended[2]
    /\ appended[2] # appended[3]

\* The text Display writes for a report is one line per pair, in append
\* order: the error alone when the pair's path is empty, path: error otherwise.
ReportLineFormat == rendered # "-" => rendered = Lines(appended, 1)

\* C9: Display writes one line per pair, in append order, the error alone
\* when the pair's path is empty and path: error otherwise; and the report of
\* the user with username "" and age 10 reads
\* username: username must not be empty, then age: age must be <U+2265> 18
\* (U+2265 is the greater-than-or-equal sign).
C9_ReportDisplayLines ==
    /\ ReportLineFormat
    /\ (rendered # "-" /\ result.op = "validate_into" /\ Len(appended) = 2) =>
            (result.user = User(<<>>, 10) =>
                rendered
                  = "username: username must not be empty\nage: age must be <U+2265> 18\n")

(***************************************************************************)
(* Properties of the list machine.                                         *)
(***************************************************************************)

\* C6: a list built by n append calls from List::new() has len() = n = the
\* number of nodes reachable from its head through prev links, is_empty()
\* iff n = 0, and an iteration of it returns at most n items, the appended
\* values newest first, and has returned exactly n of them when it returns None.
C6_LengthAndReverseOrder ==
    /\ \A i \in DOMAIN lists : lists[i].live =>
            /\ ListLen(lists[i]) = Len(built[i])
            /\ ListLen(lists[i]) = Len(ChainNodes(heap, lists[i].node))
            /\ ListIsEmpty(lists[i]) <=> (Len(built[i]) = 0)
    /\ iter.pc # "none" =>
            /\ Len(yielded) <= Len(built[iter.list])
            /\ \A k \in 1 .. Len(yielded) :
                    yielded[k].value = Reverse(built[iter.list])[k]
            /\ iter.done => Len(yielded) = Len(built[iter.list])

\* An iteration of a list of three appended values, not all equal, has ended.
C6_Witness ==
    /\ iter.done
    /\ Len(yielded) = 3
    /\ built[iter.list][1] # built[iter.list][3]

\* C7: no step changes the length or the values of a list that exists before
\* and after it, and each list returned by append holds its own value followed
\* by exactly its receiver's values (while the receiver exists).
C7_AppendLeavesReceiver ==
    [][/\ \A i \in DOMAIN lists : (lists[i].live /\ lists'[i].live) =>
            /\ ListLen(lists'[i]) = ListLen(lists[i])
            /\ Chain(heap', lists'[i].node) = Chain(heap, lists[i].node)
       /\ \A j \in DOMAIN lists' : (lists'[j].live /\ origin'[j] # 0) =>
            (lists'[origin'[j]].live =>
                /\ Chain(heap', lists'[j].node)
                      = <<built'[j][Len(built'[j])]>> \o Chain(heap', lists'[origin'[j]].node)
                /\ ListLen(lists'[j]) = ListLen(lists'[origin'[j]]) + 1)
      ]_vars

\* Two appends on the same non-empty list have produced diverging branches.
C7_Witness ==
    \E j, k \in DOMAIN lists :
        /\ j # k /\ lists[j].live /\ lists[k].live
        /\ origin[j] # 0 /\ origin[j] = origin[k]
        /\ lists[origin[j]].live /\ lists[origin[j]].length > 0
        /\ built[j] # built[k]

\* C10: while an iterator on list L is in use, whatever appends and drops
\* other lists go through, the items it has returned are L's values from
\* the newest on, at most L.len() of them and exactly L.len() once it has
\* returned None; every node it holds or has returned a reference into is
\* unreleased and holds the value it was created with.
C10_IterationUnaffected ==
    iter.pc # "none" =>
        /\ Len(yielded) <= ListLen(lists[iter.list])
        /\ \A k \in 1 .. Len(yielded) :
                /\ yielded[k].node = ChainNodes(heap, lists[iter.list].node)[k]
                /\ heap[yielded[k].node].strong > 0
                /\ heap[yielded[k].node].value = yielded[k].value
        /\ iter.done => Len(yielded) = ListLen(lists[iter.list])
        /\ \A n \in {iter.next, iter.node, iter.old} \ {None} : heap[n].strong > 0

\* An iteration of a two-value list has ended, and a list was appended to L
\* after the iteration began.
C10_Witness ==
    /\ iter.done
    /\ Len(yielded) = 2
    /\ \E j \in DOMAIN lists : j > iter.since /\ origin[j] = iter.list

====
